---- MODULE Spec2Model ----
(***************************************************************************)
(* A model of the zillow-scraping pipeline:                                *)
(*   - nimble_request, the retrying fetch client, in its two forms         *)
(*     ("new": scrape_zillow.py and scrape_zillow_selenium.py,             *)
(*      "old": scrape_zillow_old.py);                                      *)
(*   - scrape_zillow_rentals of scrape_zillow.py, the per-card run;        *)
(*   - parse_search_page and process_individual_cards of                   *)
(*     scrape_zillow_old.py.                                               *)
(* The rendering backend is the environment: each POST draws its outcome   *)
(* from a bounded set.                                                     *)
(***************************************************************************)
EXTENDS Integers, Sequences, FiniteSets, TLC

(***************************************************************************)
(* Bounds of the model.                                                    *)
(***************************************************************************)
\* nimble_request is explored with retries = 1 .. MaxRetries
MaxRetries == 3
\* a search page of scrape_zillow.py holds at most MaxCards property cards
MaxCards == 2
\* a search page of scrape_zillow_old.py holds at most MaxElems elements
MaxElems == 2

(***************************************************************************)
(* Program constants.                                                      *)
(***************************************************************************)
\* retries=2, the default of nimble_request in scrape_zillow.py
DefaultRetriesNew == 2
\* retries=3, the default of nimble_request in scrape_zillow_old.py
DefaultRetriesOld == 3

Variants == {"new", "old"}

(***************************************************************************)
(* The backend, per POST.  kind is what the attempt meets:                 *)
(*   transport   requests.post raises ConnectionError                      *)
(*   timeout     requests.post raises Timeout                              *)
(*   http        a non-2xx status: raise_for_status raises HTTPError       *)
(*   nonjson     a 2xx body that is no JSON: response.json() raises the    *)
(*               JSONDecodeError of requests >= 2.27 (a RequestException)  *)
(*   nonjson_legacy  the same body under an older requests: a ValueError   *)
(*   nostatus    JSON without a "status" field: result["status"] raises    *)
(*   nohtml      status "success" without "html_content"                   *)
(*   nonsuccess  JSON whose status is not "success"                        *)
(*   success     status "success" with html_content = html                 *)
(***************************************************************************)
RaisingKinds == {"transport", "timeout", "http", "nonjson", "nonjson_legacy",
                 "nostatus", "nohtml"}

OutcomeKinds == RaisingKinds \cup {"nonsuccess", "success"}

\* The exception class an attempt of this kind raises inside the try block.
ExcOf(kind) ==
    CASE kind \in {"transport", "timeout", "http", "nonjson"} -> "RequestException"
      [] kind = "nonjson_legacy" -> "ValueError"
      [] kind \in {"nostatus", "nohtml"} -> "KeyError"
      [] OTHER -> "none"

NoHtml == [kind |-> "nohtml"]

Failure(kind) == [kind |-> kind, html |-> NoHtml]
Success(h) == [kind |-> "success", html |-> h]

\* The values a call can end with.
Pending == [tag |-> "pending"]
None == [tag |-> "none"]
Raised(exc) == [tag |-> "raised", exc |-> exc]
Html(h) == [tag |-> "html", html |-> h]

TruthyUnlessNone(r) == r.tag = "html"

\* Python's truth value of a returned html: None and "" are false.
Truthy(r) == r.tag = "html" /\ r.html.kind # "empty"

(***************************************************************************)
(* nimble_request.  The except clause of each form.                        *)
(***************************************************************************)
CaughtOnlyRequestException(v, exc) == exc = "RequestException"

\* scrape_zillow.py: except Exception; scrape_zillow_old.py:
\* except requests.RequestException
Caught(v, exc) ==
    IF v = "new" THEN exc # "none" ELSE exc = "RequestException"

RetryGuardOffByOne(att, n) == att < n - 2

RetryGuardAlways(att, n) == TRUE

\* if attempt < retries - 1: the guard of the backoff sleep (and, in the old
\* form, of the continue)
RetryGuard(att, n) == att < n - 1

(***************************************************************************)
(* One pass through the loop body: what attempt number att (0-based) of a  *)
(* call with retries = n does on outcome o.  The result names the control  *)
(* transfer (next), the value returned if the call ends here, and whether  *)
(* the backoff sleep ran.                                                  *)
(***************************************************************************)
AttemptResult(v, att, n, o) ==
    LET exc == ExcOf(o.kind) IN
    CASE o.kind = "success" ->
           [next |-> "return", ret |-> Html(o.html), slept |-> FALSE]
      [] o.kind = "nonsuccess" ->
           \* new: print(...); return None
           \* old: logger.error(...), then the return None, None inside the loop
           [next |-> "return", ret |-> None, slept |-> FALSE]
      [] OTHER ->
           IF ~Caught(v, exc)
           THEN \* the exception leaves nimble_request
                [next |-> "return", ret |-> Raised(exc), slept |-> FALSE]
           ELSE IF v = "new"
           THEN \* sleep if attempts remain, then continue in either case
                [next |-> "continue", ret |-> Pending, slept |-> RetryGuard(att, n)]
           ELSE IF RetryGuard(att, n)
           THEN [next |-> "continue", ret |-> Pending, slept |-> TRUE]
           ELSE \* old form, last attempt: falls out of the except clause to
                \* the return None, None inside the loop
                [next |-> "return", ret |-> None, slept |-> FALSE]

(***************************************************************************)
(* State of one nimble_request call.                                       *)
(***************************************************************************)
VARIABLES
    variant,   \* which file's nimble_request runs
    url,       \* the url argument
    render_flow, \* the render_flow argument: "search", "scroll", "click" or
               \* "detail", by the page it leaves the browser on
    retries,   \* the retries argument
    attempt,   \* the loop variable
    fpc,       \* "idle" | "loop" | "done"
    posts,     \* number of requests.post calls of this call
    events,    \* "post" and "sleep" events of this call, in order
    reported,  \* the "Failed to fetch ... after N attempts" line was emitted
    ret,       \* the call's result
    outcomes   \* the backend's answers to this call, in order

fetchVars == <<variant, url, render_flow, retries, attempt, fpc, posts, events, reported, ret, outcomes>>

(***************************************************************************)
(* Pages.  A url is the search url or the detail url of a listing; the     *)
(* html a "success" carries is drawn from the pages of that url.           *)
(***************************************************************************)
SearchUrl == "https://www.zillow.com/bloomington-il-61761/rentals/"
OakUrl == "https://www.zillow.com/homedetails/12-Oak-St/7_zpid/"
ElmUrl == "https://www.zillow.com/b/elm-court/"
NoneUrl == "<None>"

\* html_content = ""
EmptyHtml == [kind |-> "empty"]
\* html_content a JSON value that is no string (a number, an object):
\* truthy, and BeautifulSoup(html, 'html.parser') raises on it
NonStringHtml == [kind |-> "nonstring"]

NoElem == "<no element>"

RECURSIVE SeqsUpTo(_, _)
SeqsUpTo(S, n) ==
    IF n = 0 THEN {<<>>}
    ELSE LET shorter == SeqsUpTo(S, n - 1) IN
         shorter \cup {Append(s, x) : s \in {t \in shorter : Len(t) = n - 1}, x \in S}

\* what re.search gives when the pattern is nowhere in the text
NoMatch == "<no match>"

\* The leading selectors of an ordered selector list that a page is described
\* by (the later selectors of the list match nothing), and the items of a
\* facts selector's elements.
MaxSelectors == 2
MaxItems == 2

\* select_one of each of the leading selectors: NoElem, or the stripped text
\* of the first element the selector matches ("" for an element without text)
SelectorResults(texts) == [1 .. MaxSelectors -> {NoElem} \cup texts]

NoneSelected == [k \in 1 .. MaxSelectors |-> NoElem]

FirstSelected(text) == [k \in 1 .. MaxSelectors |-> IF k = 1 THEN text ELSE NoElem]

PriceTexts == {"", "$1,200/mo", "$1,500"}

\* div[data-testid="bed-bath-beyond"] (present or not, and what the three
\* patterns find in its text) with what the same patterns find first in the
\* text of the whole page, which contains the element's text: a pattern found
\* in the element is found in the page, at the element or before it.
BedBaths ==
    {b \in [present : BOOLEAN,
            bedrooms : {NoMatch, "2"}, bathrooms : {NoMatch, "1"}, sqft : {NoMatch, "850"},
            page_bedrooms : {NoMatch, "2", "3"}, page_bathrooms : {NoMatch, "1"},
            page_sqft : {NoMatch, "850"}] :
        /\ ~b.present => b.bedrooms = NoMatch /\ b.bathrooms = NoMatch /\ b.sqft = NoMatch
        /\ b.bedrooms # NoMatch => b.page_bedrooms # NoMatch
        /\ b.bedrooms = NoMatch => b.page_bedrooms # "2"
        /\ b.bathrooms # NoMatch => b.page_bathrooms # NoMatch
        /\ b.sqft # NoMatch => b.page_sqft # NoMatch}

NoBedBath ==
    [present |-> FALSE, bedrooms |-> NoMatch, bathrooms |-> NoMatch, sqft |-> NoMatch,
     page_bedrooms |-> NoMatch, page_bathrooms |-> NoMatch, page_sqft |-> NoMatch]

\* the lowered text of a span, li or div under a facts element
FactTexts == {"shared laundry", "in-unit washer"}

\* for each leading facts selector, the item texts of the elements it
\* selects, in document order
Facts == [1 .. MaxSelectors -> SeqsUpTo(FactTexts, MaxItems)]

NoFacts == [k \in 1 .. MaxSelectors |-> <<>>]

AddressTexts == {"12 Oak Street, Bloomington, IL 61761"}

\* A detail page of scrape_zillow.py, by what extract_apartment_details
\* finds in it.
AllDetailPages ==
    [kind : {"detail"},
     price_elems : SelectorResults(PriceTexts),
     address_elem : {NoElem} \cup AddressTexts,
     bedbath : BedBaths,
     facts : Facts]

\* the detail pages a run meets
DetailPages ==
    [kind : {"detail"},
     price_elems : {NoneSelected, FirstSelected("$1,200/mo")},
     address_elem : {NoElem} \cup AddressTexts,
     bedbath : {NoBedBath},
     facts : {NoFacts}]

\* A property card of scrape_zillow.py's search page: its id attribute, the
\* href of its a[data-test="property-card-link"] ("nolink": no such anchor,
\* "nohref": an anchor without href), what select_one of the leading address
\* selectors gives, and what the address pattern finds in the card's text.
Hrefs == {"/homedetails/12-Oak-St/7_zpid/", OakUrl, "/b/elm-court/"}

CardAddressTexts == {"", "12 Oak St"}

AllCards ==
    [id : {"", "zpid_7"},
     link : {"nolink", "nohref"} \cup Hrefs,
     addr_elems : SelectorResults(CardAddressTexts),
     text_addr : {NoMatch, "12 Oak St, Bloomington, IL 61761"}]

\* the cards a run meets
Cards ==
    [id : {"", "zpid_7"},
     link : {"nolink", "nohref"} \cup Hrefs,
     addr_elems : {NoneSelected, FirstSelected("12 Oak St")},
     text_addr : {NoMatch}]

SearchPages == {[kind |-> "search", cards |-> cs] : cs \in SeqsUpTo(Cards, MaxCards)}

\* A detail page of scrape_zillow_old.py, by what parse_house_page finds: the
\* preloaded-data script ("absent", "unparsable": no JSON, "property": JSON
\* with a property object, "noproperty": JSON without one) and the text of
\* the span[data-test="price"] element.
OldDetailPages ==
    [kind : {"detail_old"},
     script : {"absent", "unparsable", "property", "noproperty"},
     price_elem : {NoElem, "$1,200/mo"}]

VARIABLES
    site     \* the search page as the site renders it during the run

\* The html a "success" answer can carry, by the form, and by the page the
\* render flow ends on.
Htmls(v, f) ==
    {EmptyHtml, NonStringHtml} \cup
      (IF f \in {"search", "scroll"} THEN {site}
       ELSE IF v = "new" THEN DetailPages ELSE OldDetailPages)

Outcomes(v, f) ==
    {Failure(k) : k \in OutcomeKinds \ {"success"}} \cup {Success(h) : h \in Htmls(v, f)}

(***************************************************************************)
(* State of a run (scrape_zillow_rentals of scrape_zillow.py).             *)
(***************************************************************************)
VARIABLES
    pc,              \* where the run is
    cards,           \* soup.select('article[data-test="property-card"]')
    idx,             \* 1-based position of the for loop in cards
    details,         \* the current card's details dict
    all_properties,  \* the records collected
    runlog,          \* the run's nimble_request calls, sleeps, reports and
                     \* file writes, in order
    csv              \* zillow_rentals.csv: whether written, and its rows

runVars == <<pc, cards, idx, details, all_properties, runlog, csv>>

(***************************************************************************)
(* State of process_individual_cards (scrape_zillow_old.py).               *)
(***************************************************************************)
VARIABLES
    max_cards,       \* the max_cards argument; 0 stands for None
    use_clicks,      \* the use_clicks argument
    html,            \* the search page html in hand
    card_data_list,  \* what parse_search_page returned (truncated)
    all_data         \* the records collected

cardVars == <<max_cards, use_clicks, html, card_data_list, all_data>>

vars == <<fetchVars, site, runVars, cardVars>>

(***************************************************************************)
(* nimble_request as steps.  Call is the entry, Post one pass through the  *)
(* loop body (one requests.post), LoopExit the code after the loop.        *)
(***************************************************************************)
Call(v, u, f, n) ==
    /\ variant' = v
    /\ url' = u
    /\ render_flow' = f
    /\ retries' = n
    /\ attempt' = 0
    /\ fpc' = "loop"
    /\ posts' = 0
    /\ events' = <<>>
    /\ reported' = FALSE
    /\ ret' = Pending

PostStep(o) ==
    /\ fpc = "loop"
    /\ attempt < retries
    /\ LET r == AttemptResult(variant, attempt, retries, o) IN
         /\ posts' = posts + 1
         /\ events' = events \o <<"post">> \o (IF r.slept THEN <<"sleep">> ELSE <<>>)
         /\ attempt' = IF r.next = "continue" THEN attempt + 1 ELSE attempt
         /\ fpc' = IF r.next = "return" THEN "done" ELSE "loop"
         /\ ret' = r.ret
    /\ UNCHANGED <<variant, url, render_flow, retries, reported>>

\* range(retries) is exhausted: print/log "Failed to fetch {url} after
\* {retries} attempts" and return the failure value
LoopExitStep ==
    /\ fpc = "loop"
    /\ attempt >= retries
    /\ reported' = TRUE
    /\ ret' = None
    /\ fpc' = "done"
    /\ UNCHANGED <<variant, url, render_flow, retries, attempt, posts, events>>

(***************************************************************************)
(* SpecFetch: one nimble_request call of either form, with any retries in  *)
(* 1 .. MaxRetries, against any backend.                                   *)
(***************************************************************************)
RunIdle ==
    /\ pc = "none"
    /\ cards = <<>>
    /\ idx = 0
    /\ details = [zpid |-> "", url |-> NoneUrl, address |-> "Unknown"]
    /\ all_properties = <<>>
    /\ runlog = <<>>
    /\ csv = [written |-> FALSE, rows |-> <<>>]

CardsIdle ==
    /\ max_cards = 0
    /\ use_clicks = FALSE
    /\ html = EmptyHtml
    /\ card_data_list = <<>>
    /\ all_data = <<>>

InitFetch ==
    /\ variant \in Variants
    /\ url = OakUrl
    /\ render_flow = "detail"
    /\ site = EmptyHtml
    /\ CardsIdle
    /\ retries \in 1 .. MaxRetries
    /\ attempt = 0
    /\ fpc = "loop"
    /\ posts = 0
    /\ events = <<>>
    /\ reported = FALSE
    /\ ret = Pending
    /\ outcomes = <<>>
    /\ RunIdle

Post ==
    \E o \in Outcomes(variant, render_flow) :
        /\ PostStep(o)
        /\ outcomes' = Append(outcomes, o)
        /\ UNCHANGED <<site, runVars, cardVars>>

LoopExit ==
    /\ LoopExitStep
    /\ UNCHANGED <<outcomes, site, runVars, cardVars>>

NextFetch == Post \/ LoopExit

SpecFetch == InitFetch /\ [][NextFetch]_vars

(***************************************************************************)
(* scrape_zillow.py: extract_property_details.                             *)
(***************************************************************************)
\* card.get('id', '').replace('zpid_', '').replace('property-card-', '')
StripZpid(id) ==
    CASE id = "zpid_7" -> "7"
      [] id = "property-card-7" -> "7"
      [] OTHER -> id

StartsWithHttp(href) == href \in {SearchUrl, OakUrl, ElmUrl}

\* f"https://www.zillow.com{link['href']}"
Prefixed(href) ==
    CASE href = "/homedetails/12-Oak-St/7_zpid/" -> OakUrl
      [] href = "/b/elm-court/" -> ElmUrl
      [] OTHER -> "https://www.zillow.com" \o href

\* link['href'] on an anchor without href raises KeyError: the first condition
\* of the conditional expression fails on 'href' in link.attrs, and its else
\* branch reads link['href'] whenever link is not None
PropertyDetailsRaises(card) == card.link = "nohref"

CardUrl(link) ==
    CASE link = "nolink" -> NoneUrl
      [] StartsWithHttp(link) -> link
      [] OTHER -> Prefixed(link)

\* the loop over an ordered selector list (lines 78-83, 121-125): the text of
\* the first element found, in the order of the list; a Tag is truthy
\* whatever its text, so an element without text ends the loop with ""
FirstMatch(elems) ==
    IF \E k \in DOMAIN elems : elems[k] # NoElem
    THEN elems[CHOOSE k \in DOMAIN elems :
                  /\ elems[k] # NoElem
                  /\ \A j \in 1 .. k - 1 : elems[j] = NoElem]
    ELSE NoElem

\* lines 67-90: the address selectors, then the pattern on the card's text
CardAddress(card) ==
    LET elem == FirstMatch(card.addr_elems)
        address == IF elem # NoElem THEN elem ELSE "Unknown"
    IN IF address = "Unknown" /\ card.text_addr # NoMatch THEN card.text_addr ELSE address

extract_property_details(card) ==
    [zpid |-> StripZpid(card.id), url |-> CardUrl(card.link), address |-> CardAddress(card)]

(***************************************************************************)
(* scrape_zillow.py: extract_apartment_details, after its fetch.           *)
(***************************************************************************)
\* re.search(r'/homedetails/(.+?)/\d+_zpid', path), '-' replaced by ' '
UrlAddress(u) == IF u = OakUrl THEN "12 Oak St" ELSE "Unknown"

\* lines 111-125
Price(page) ==
    LET price_elem == FirstMatch(page.price_elems)
    IN IF price_elem = NoElem THEN "Unknown" ELSE price_elem

BedBathKeys == {"bedrooms", "bathrooms", "sqft"}

\* lines 128-142: the three patterns on the summary element's text
FromSummary(b) ==
    [bedrooms |-> IF b.present /\ b.bedrooms # NoMatch THEN b.bedrooms ELSE "Unknown",
     bathrooms |-> IF b.present /\ b.bathrooms # NoMatch THEN b.bathrooms ELSE "Unknown",
     sqft |-> IF b.present /\ b.sqft # NoMatch THEN b.sqft ELSE "Unknown"]

\* lines 145-155: when any of the three is still 'Unknown', each pattern
\* found in the page's text is assigned, whatever the key held
PageFallback(d, b) ==
    IF \E k \in BedBathKeys : d[k] = "Unknown"
    THEN [bedrooms |-> IF b.page_bedrooms # NoMatch THEN b.page_bedrooms ELSE d.bedrooms,
          bathrooms |-> IF b.page_bathrooms # NoMatch THEN b.page_bathrooms ELSE d.bathrooms,
          sqft |-> IF b.page_sqft # NoMatch THEN b.page_sqft ELSE d.sqft]
    ELSE d

BedBath(page) == PageFallback(FromSummary(page.bedbath), page.bedbath)

\* lines 158-169
DetailAddress(page, u) ==
    IF page.address_elem = NoElem THEN UrlAddress(u) ELSE page.address_elem

AmenityKeys == {"pets_allowed", "laundry", "parking", "cooling", "heating"}

\* lines 179-183
AmenityDefaults ==
    [pets_allowed |-> "No", laundry |-> "None", parking |-> "None",
     cooling |-> "None", heating |-> "None"]

\* the if/elif chain of lines 190-199: the key an item's text is assigned to
Category(text) ==
    CASE text \in {"cats allowed", "no pets"} -> "pets_allowed"
      [] text \in {"shared laundry", "in-unit washer"} -> "laundry"
      [] text \in {"garage parking"} -> "parking"
      [] text \in {"central air"} -> "cooling"
      [] text \in {"forced air heating"} -> "heating"
      [] OTHER -> "none"

\* lines 186-199: every item assigns its key, whatever the key held
RECURSIVE ItemsApplied(_, _)
ItemsApplied(am, items) ==
    IF items = <<>> THEN am
    ELSE LET text == Head(items)
             key == Category(text)
         IN ItemsApplied(IF key = "none" THEN am ELSE [am EXCEPT ![key] = text],
                         Tail(items))

\* line 200
AllResolved(am) == \A k \in AmenityKeys : am[k] # "None"

\* lines 184-201: the facts selectors in order, until all five keys differ
\* from 'None'
RECURSIVE FactsApplied(_, _, _)
FactsApplied(am, facts, k) ==
    IF k > Len(facts) THEN am
    ELSE LET after == ItemsApplied(am, facts[k])
         IN IF AllResolved(after) THEN after ELSE FactsApplied(after, facts, k + 1)

Amenities(page) == FactsApplied(AmenityDefaults, page.facts, 1)

ParseApartment(page, u) ==
    LET b == BedBath(page)
        am == Amenities(page)
    IN [price |-> Price(page),
        bedrooms |-> b.bedrooms,
        bathrooms |-> b.bathrooms,
        sqft |-> b.sqft,
        address |-> DetailAddress(page, u),
        pets_allowed |-> am.pets_allowed,
        laundry |-> am.laundry,
        parking |-> am.parking,
        cooling |-> am.cooling,
        heating |-> am.heating]

\* a page in which nothing is found
BlankDetailPage ==
    [kind |-> "detail", price_elems |-> NoneSelected, address_elem |-> NoElem,
     bedbath |-> NoBedBath, facts |-> NoFacts]

\* line 162 and line 169: what extract_apartment_details prints about the address
AddressSaid(page, u) ==
    IF page.address_elem # NoElem THEN <<"Address extracted from detail page">>
    ELSE IF UrlAddress(u) # "Unknown" THEN <<"Address extracted from URL">>
    ELSE <<>>

\* What extract_apartment_details(u) does with the value r its nimble_request
\* call ended with: [tag |-> "none"] for return None, "raised" when an
\* exception leaves it, "details" with the dict otherwise.
ApartmentDetails(r, u) ==
    CASE r.tag = "raised" -> [tag |-> "raised"]
      [] ~Truthy(r) -> [tag |-> "none"]
      [] r.html.kind = "nonstring" -> [tag |-> "raised"]
      [] r.html.kind = "detail" -> [tag |-> "details", details |-> ParseApartment(r.html, u)]
      [] OTHER -> [tag |-> "details", details |-> ParseApartment(BlankDetailPage, u)]

(***************************************************************************)
(* scrape_zillow.py: scrape_zillow_rentals.                                *)
(***************************************************************************)
\* if len(cards) < 9: the debug snapshot is written
ExpectedCards == 9

csv_columns_no_heating ==
    <<"zpid", "address", "url", "price", "bedrooms", "bathrooms", "sqft",
      "pets_allowed", "laundry", "parking", "cooling">>

\* line 253
csv_columns ==
    <<"zpid", "address", "url", "price", "bedrooms", "bathrooms", "sqft",
      "pets_allowed", "laundry", "parking", "cooling", "heating">>

Range(f) == {f[x] : x \in DOMAIN f}

Ev(e, a) == [ev |-> e, arg |-> a]

FetchIdle ==
    /\ fpc' = "idle"
    /\ attempt' = 0
    /\ posts' = 0
    /\ events' = <<>>
    /\ reported' = FALSE
    /\ ret' = Pending
    /\ UNCHANGED <<variant, url, render_flow, retries>>

\* soup.select('article[data-test="property-card"]'): a page that is no
\* search page has no such element
CardsOf(page) == IF page.kind = "search" THEN page.cards ELSE <<>>

AppendedOnlyWithDetails(props, rec, a) ==
    IF a.tag = "details" THEN Append(props, rec) ELSE props

\* all_properties.append(details), on line 237 (no exception; a is what
\* extract_apartment_details gave) and on line 240 (the except clause)
Appended(props, rec, a) == Append(props, rec)

MergeDetailWins(d, a) ==
    [k \in DOMAIN d \cup DOMAIN a |-> IF k \in DOMAIN a THEN a[k] ELSE d[k]]

\* the merge of lines 232-236 (scrape_zillow_selenium.py has the same lines
\* at 318-320)
Merge(d, a) ==
    LET addr == IF d.address = "Unknown" /\ a.address # "Unknown"
                THEN a.address ELSE d.address
        upd == DOMAIN a \ {"address"}
    IN [k \in DOMAIN d \cup upd |->
          IF k = "address" THEN addr ELSE IF k \in upd THEN a[k] ELSE d[k]]

\* csv.DictWriter.writerow: a missing key is written as '', None as ''
Row(prop) ==
    [c \in Range(csv_columns) |->
       IF c \notin DOMAIN prop \/ prop[c] = NoneUrl THEN "" ELSE prop[c]]

NotDelayed(log) == log

\* time.sleep at the end of a listing's pass through the loop: line 241
\* (scrape_zillow_old.py: line 829)
Delayed(log) == Append(log, Ev("sleep", ""))

HasUrlOrNot(d) == TRUE

\* line 227: if details['url']
HasUrl(d) == d.url # NoneUrl

NoPropertiesNever(props) == FALSE

\* line 243: if not all_properties
NoProperties(props) == props = <<>>

\* lines 208-212
StartRun ==
    /\ pc = "start"
    /\ all_properties' = <<>>
    /\ runlog' = Append(runlog, Ev("request", SearchUrl))
    /\ Call("new", SearchUrl, "search", DefaultRetriesNew)
    /\ pc' = "search_fetch"
    /\ UNCHANGED <<cards, idx, details, csv, outcomes, site, cardVars>>

\* one requests.post of the nimble_request call in progress
RunPost ==
    /\ pc \in {"search_fetch", "scroll_fetch", "detail_fetch"}
    /\ \E o \in Outcomes(variant, render_flow) : PostStep(o)
    /\ UNCHANGED <<outcomes, site, runVars, cardVars>>

RunLoopExit ==
    /\ pc \in {"search_fetch", "scroll_fetch", "detail_fetch"}
    /\ LoopExitStep
    /\ UNCHANGED <<outcomes, site, runVars, cardVars>>

\* lines 213-224: the search fetch has returned
SearchReturned ==
    /\ pc = "search_fetch"
    /\ fpc = "done"
    /\ FetchIdle
    /\ IF ret.tag = "raised" \/ (Truthy(ret) /\ ret.html.kind = "nonstring")
       THEN \* an exception leaves scrape_zillow_rentals
            /\ pc' = "crashed"
            /\ UNCHANGED <<cards, idx, runlog>>
       ELSE IF ~Truthy(ret)
       THEN /\ runlog' = Append(runlog, Ev("print", "Failed to fetch page"))
            /\ pc' = "done"
            /\ UNCHANGED <<cards, idx>>
       ELSE /\ cards' = CardsOf(ret.html)
            /\ idx' = 1
            /\ runlog' = IF Len(CardsOf(ret.html)) < ExpectedCards
                         THEN Append(runlog, Ev("write", "search_page_debug.html"))
                         ELSE runlog
            /\ pc' = "loop"
    /\ UNCHANGED <<details, all_properties, csv, outcomes, site, cardVars>>

\* lines 225-231: the next card, up to the call of nimble_request for its
\* detail page
CardStart ==
    /\ pc = "loop"
    /\ idx <= Len(cards)
    /\ IF PropertyDetailsRaises(cards[idx])
       THEN \* nothing catches it: the run ends here
            /\ pc' = "crashed"
            /\ UNCHANGED <<details, idx, runlog, fetchVars>>
       ELSE LET d == extract_property_details(cards[idx]) IN
            /\ details' = d
            /\ IF HasUrl(d)
               THEN /\ runlog' = Append(runlog, Ev("request", d.url))
                    /\ Call("new", d.url, "detail", DefaultRetriesNew)
                    /\ pc' = "detail_fetch"
                    /\ UNCHANGED <<idx, outcomes>>
               ELSE /\ idx' = idx + 1
                    /\ UNCHANGED <<pc, runlog, fetchVars>>
    /\ UNCHANGED <<cards, all_properties, csv, site, cardVars>>

\* lines 103-203 and 232-241: the detail fetch has returned; the rest of
\* extract_apartment_details, the merge, the append and the sleep
DetailReturned ==
    /\ pc = "detail_fetch"
    /\ fpc = "done"
    /\ FetchIdle
    /\ LET a == ApartmentDetails(ret, url)
           merged == IF a.tag = "details" THEN Merge(details, a.details) ELSE details
           said == CASE a.tag = "none" -> <<Ev("print", "Skipping detail page")>>
                     [] a.tag = "raised" -> <<Ev("print", "Error processing")>>
                     [] OTHER -> LET page == IF ret.html.kind = "detail" THEN ret.html
                                             ELSE BlankDetailPage
                                     said_address == AddressSaid(page, url)
                                 IN [i \in DOMAIN said_address |->
                                        Ev("print", said_address[i])]
       IN /\ details' = merged
          /\ all_properties' = Appended(all_properties, merged, a)
          /\ runlog' = Delayed(runlog \o said)
    /\ idx' = idx + 1
    /\ pc' = "loop"
    /\ UNCHANGED <<cards, csv, outcomes, site, cardVars>>

\* lines 243-259: the report or the CSV (scrape_zillow_selenium.py: lines
\* 331-346)
WriteOut ==
    /\ IF NoProperties(all_properties)
       THEN /\ runlog' = Append(runlog, Ev("print", "No properties found."))
            /\ pc' = "done"
            /\ UNCHANGED csv
       ELSE IF \E i \in DOMAIN all_properties :
                 ~(DOMAIN all_properties[i] \subseteq Range(csv_columns))
       THEN \* DictWriter raises ValueError on a key that is no column
            /\ csv' = [written |-> TRUE, rows |-> <<>>]
            /\ pc' = "crashed"
            /\ UNCHANGED runlog
       ELSE /\ csv' = [written |-> TRUE,
                       rows |-> [i \in DOMAIN all_properties |-> Row(all_properties[i])]]
            /\ runlog' = Append(runlog, Ev("print", "Saved apartment details"))
            /\ pc' = "done"
    /\ UNCHANGED <<cards, idx, details, all_properties, fetchVars, site, cardVars>>

\* lines 243-259: after the loop
AfterLoop ==
    /\ pc = "loop"
    /\ idx > Len(cards)
    /\ WriteOut

InitRun ==
    /\ variant = "new"
    /\ url = SearchUrl
    /\ render_flow = "search"
    /\ site \in SearchPages
    /\ CardsIdle
    /\ retries = DefaultRetriesNew
    /\ attempt = 0
    /\ fpc = "idle"
    /\ posts = 0
    /\ events = <<>>
    /\ reported = FALSE
    /\ ret = Pending
    /\ outcomes = <<>>
    /\ pc = "start"
    /\ cards = <<>>
    /\ idx = 0
    /\ details = [zpid |-> "", url |-> NoneUrl, address |-> "Unknown"]
    /\ all_properties = <<>>
    /\ runlog = <<>>
    /\ csv = [written |-> FALSE, rows |-> <<>>]

NextRun ==
    \/ StartRun
    \/ RunPost
    \/ RunLoopExit
    \/ SearchReturned
    \/ CardStart
    \/ DetailReturned
    \/ AfterLoop

SpecRun == InitRun /\ [][NextRun]_vars

(***************************************************************************)
(* scrape_zillow_old.py: the search page.  An element is a top-level       *)
(* element of the listing area: its tag, its data-test and class           *)
(* attributes, the data-test of the container it sits in (box), the href   *)
(* of the anchor it holds (for tag "a": its own href) and the text of its  *)
(* price element.                                                          *)
(***************************************************************************)
NoHref == "<no anchor>"

OakHref == "/homedetails/12-Oak-St/7_zpid/"
ElmHref == "/b/elm-court/"

Shapes ==
    {[tag |-> "article", dt |-> "property-card", cls |-> "", box |-> ""],
     [tag |-> "div", dt |-> "property-card", cls |-> "", box |-> ""],
     [tag |-> "div", dt |-> "", cls |-> "StyledCard", box |-> ""],
     [tag |-> "li", dt |-> "", cls |-> "listing-item", box |-> ""],
     [tag |-> "article", dt |-> "", cls |-> "", box |-> "search-page-list"]}

Elem(shape, href, price) ==
    [tag |-> shape.tag, dt |-> shape.dt, cls |-> shape.cls, box |-> shape.box,
     href |-> href, price |-> price]

Anchor(href) ==
    [tag |-> "a", dt |-> "", cls |-> "", box |-> "", href |-> href, price |-> NoElem]

Elems ==
    {Elem(sh, h, p) : sh \in Shapes, h \in {NoHref, OakHref, OakUrl, ElmHref},
                      p \in {NoElem, "$1,200/mo"}}
      \cup {Anchor(OakHref), Anchor("/homedetails/3-Elm-Ct/9_zpid/")}

\* The embedded state of the search page, by what
\* extract_data_from_search_page_html makes of it: "absent" (no script names
\* apiCache or property), "unparsable" (json.loads fails), or "results" with
\* the zpids of searchResults.listResults (none when the key is missing).
MaxListings == 2

Zpids == {"7"}

Payloads ==
    {[kind |-> "absent", zpids |-> <<>>], [kind |-> "unparsable", zpids |-> <<>>]}
      \cup {[kind |-> "results", zpids |-> zs] : zs \in SeqsUpTo(Zpids, MaxListings)}

OldSearchPages ==
    {[kind |-> "search_old", payload |-> pl, elems |-> es] :
        pl \in Payloads, es \in SeqsUpTo(Elems, MaxElems)}

ElemsOf(page) == IF page.kind = "search_old" THEN page.elems ELSE <<>>

PayloadOf(page) ==
    IF page.kind = "search_old" THEN page.payload ELSE [kind |-> "absent", zpids |-> <<>>]

(***************************************************************************)
(* scrape_zillow_old.py: parse_search_page.                                *)
(***************************************************************************)
\* substring tests of the class attribute, over the classes of Shapes
ClassHas(cls, sub) ==
    CASE sub = "property-card" -> FALSE
      [] sub = "StyledCard" -> cls = "StyledCard"
      [] sub = "card" -> FALSE
      [] OTHER -> FALSE

\* any(term in x.lower() for term in ['card', 'property', 'listing', 'item'])
ClassHasCardTerm(cls) == cls \in {"StyledCard", "listing-item"}

NumCardSelectors == 11

\* card_selectors, in order
Matches(e, sel) ==
    CASE sel = 1 -> e.tag = "article" /\ e.dt = "property-card"
      [] sel = 2 -> e.tag = "div" /\ e.dt = "property-card"
      [] sel = 3 -> e.tag = "li" /\ e.dt = "property-card"
      [] sel = 4 -> e.tag = "div" /\ ClassHas(e.cls, "property-card")
      [] sel = 5 -> e.tag = "article" /\ ClassHas(e.cls, "property-card")
      [] sel = 6 -> e.tag = "div" /\ ClassHas(e.cls, "StyledCard")
      [] sel = 7 -> e.tag = "article" /\ ClassHas(e.cls, "StyledCard")
      [] sel = 8 -> e.box = "search-page-list" /\ e.tag = "article"
      [] sel = 9 -> e.box = "search-page-list" /\ e.tag = "div" /\ ClassHas(e.cls, "card")
      [] sel = 10 -> e.box = "search-page-list-container" /\ e.tag = "article"
      [] sel = 11 -> e.box = "search-page-list-container" /\ e.tag = "div"
                       /\ ClassHas(e.cls, "card")
      [] OTHER -> FALSE

Positions(es) == [k \in 1 .. Len(es) |-> k]

\* soup.select(selector): the positions of the matching elements, in document
\* order
Select(es, sel) == SelectSeq(Positions(es), LAMBDA k : Matches(es[k], sel))

\* lines 200-205: property_cards.extend(cards) for every selector in turn
RECURSIVE Extended(_, _)
Extended(es, sel) ==
    IF sel > NumCardSelectors THEN <<>> ELSE Select(es, sel) \o Extended(es, sel + 1)

\* f"{card.name}_{card.get('class', [])}_{card.get('data-test', '')}"
CardId(e) == <<e.tag, e.cls, e.dt>>

\* lines 208-216: the first card of each card_id is kept
RECURSIVE Unique(_, _, _)
Unique(es, ks, seen_cards) ==
    IF ks = <<>> THEN <<>>
    ELSE IF CardId(es[Head(ks)]) \in seen_cards
         THEN Unique(es, Tail(ks), seen_cards)
         ELSE <<Head(ks)>> \o Unique(es, Tail(ks), seen_cards \cup {CardId(es[Head(ks)])})

\* lines 222-226: the broader search, when no selector found a card
Broader(es) ==
    SelectSeq(Positions(es),
              LAMBDA k : es[k].tag \in {"article", "div", "li"} /\ ClassHasCardTerm(es[k].cls))

PropertyCards(es) ==
    LET unique_cards == Unique(es, Extended(es, 1), {}) IN
    IF unique_cards = <<>> THEN Broader(es) ELSE unique_cards

\* lines 264-266: if not href.startswith('https://'): prefix the host
AbsoluteHttps(href) ==
    CASE href = OakUrl -> OakUrl
      [] href = OakHref -> OakUrl
      [] href = ElmHref -> ElmUrl
      [] OTHER -> "https://www.zillow.com" \o href

\* lines 246-372: the card_info of one card; the empty function when the card
\* has no link and no field
CardInfo(e) ==
    LET keys == (IF e.href # NoHref THEN {"detail_url"} ELSE {})
                  \cup (IF e.price # NoElem THEN {"card_price"} ELSE {})
    IN [k \in keys |-> IF k = "detail_url" THEN AbsoluteHttps(e.href) ELSE e.price]

\* lines 245-372: the primary pass; if card_info: card_data.append(card_info)
RECURSIVE PrimaryPass(_, _)
PrimaryPass(es, ks) ==
    IF ks = <<>> THEN <<>>
    ELSE LET info == CardInfo(es[Head(ks)]) IN
         (IF DOMAIN info = {} THEN <<>> ELSE <<info>>) \o PrimaryPass(es, Tail(ks))

\* seen_urls after the primary pass
PrimaryUrls(es, ks) == {AbsoluteHttps(es[ks[n]].href) : n \in {m \in DOMAIN ks : es[ks[m]].href # NoHref}}

\* "a[href*='/homedetails/']"
IsHomeDetails(href) == href \in {OakHref, OakUrl, "/homedetails/3-Elm-Ct/9_zpid/"}

\* lines 381-382: if not href.startswith('http'): prefix the host
AbsoluteHttp(href) ==
    CASE href = OakUrl -> OakUrl
      [] href = OakHref -> OakUrl
      [] OTHER -> "https://www.zillow.com" \o href

\* lines 375-391: the secondary pass over every homedetails anchor of the page,
\* from position k on
RECURSIVE SecondaryPass(_, _, _)
SecondaryPass(es, k, seen_urls) ==
    IF k > Len(es) THEN <<>>
    ELSE IF es[k].href = NoHref \/ ~IsHomeDetails(es[k].href)
              \/ AbsoluteHttp(es[k].href) \in seen_urls
         THEN SecondaryPass(es, k + 1, seen_urls)
         ELSE <<[detail_url |-> AbsoluteHttp(es[k].href)]>>
                \o SecondaryPass(es, k + 1, seen_urls \cup {AbsoluteHttp(es[k].href)})

parse_search_page(page) ==
    LET es == ElemsOf(page)
        property_cards == PropertyCards(es)
    IN PrimaryPass(es, property_cards)
         \o SecondaryPass(es, 1, PrimaryUrls(es, property_cards))

(***************************************************************************)
(* SpecParse: parse_search_page applied to any page of OldSearchPages.     *)
(***************************************************************************)
InitParse ==
    /\ variant = "old"
    /\ url = SearchUrl
    /\ render_flow = "search"
    /\ retries = DefaultRetriesOld
    /\ attempt = 0
    /\ fpc = "idle"
    /\ posts = 0
    /\ events = <<>>
    /\ reported = FALSE
    /\ ret = Pending
    /\ outcomes = <<>>
    /\ site \in {p \in OldSearchPages : p.payload.kind = "absent"}
    /\ RunIdle
    /\ CardsIdle

Parse ==
    /\ pc = "none"
    /\ card_data_list' = parse_search_page(site)
    /\ html' = site
    /\ pc' = "parsed"
    /\ UNCHANGED <<fetchVars, site, cards, idx, details, all_properties, runlog, csv,
                   max_cards, use_clicks, all_data>>

NextParse == Parse

SpecParse == InitParse /\ [][NextParse]_vars

(***************************************************************************)
(* scrape_zillow_old.py: extract_data_from_search_page_html,               *)
(* parse_house_page.                                                       *)
(***************************************************************************)
\* lines 468-482: the property_data of one listResults entry with this zpid
PropertyData(zpid) ==
    [zpid |-> zpid, address |-> "", price |-> "", bedrooms |-> "", bathrooms |-> "",
     square_feet |-> "", home_type |-> "", year_built |-> "", lot_size |-> "",
     price_per_sqft |-> "", days_on_zillow |-> "", description |-> "",
     detail_url |-> "https://www.zillow.com/homedetails/" \o zpid \o "/"]

\* an absent or unparsable payload gives the empty list
extract_data_from_search_page_html(page) ==
    LET pl == PayloadOf(page) IN
    IF pl.kind = "results" THEN [n \in DOMAIN pl.zpids |-> PropertyData(pl.zpids[n])]
    ELSE <<>>

EmptyDict == [k \in {} |-> ""]

\* lines 398-442, over the fields of a detail page of this model
extract_basic_info_from_html(page) ==
    IF page.price_elem = NoElem THEN EmptyDict ELSE [price |-> page.price_elem]

\* lines 500-658.  A script that parses and holds a property object leaves
\* the for/else of lines 548-557 with prop set and reaches line 651-652,
\* return {}: the extraction of lines 559-650 sits after the return of line
\* 557, inside the if.
parse_house_page(page) ==
    CASE page.script \in {"absent", "noproperty"} -> extract_basic_info_from_html(page)
      [] page.script = "unparsable" -> EmptyDict
      [] OTHER -> EmptyDict

(***************************************************************************)
(* scrape_zillow_old.py: process_individual_cards.                         *)
(***************************************************************************)
\* if initial_card_count < 15: the additional scroll request is made
ExpectedInitialCards == 15

Get(d, k) == IF k \in DOMAIN d THEN d[k] ELSE ""

Update(d, e) == [k \in DOMAIN d \cup DOMAIN e |-> IF k \in DOMAIN e THEN e[k] ELSE d[k]]

\* lines 801-806 and 815-820
CardLevel(card_data) ==
    [card_price |-> Get(card_data, "card_price"),
     card_address |-> Get(card_data, "card_address"),
     card_bedrooms |-> Get(card_data, "card_bedrooms"),
     card_bathrooms |-> Get(card_data, "card_bathrooms"),
     card_sqft |-> Get(card_data, "card_sqft"),
     card_home_type |-> Get(card_data, "card_home_type")]

\* lines 797-806
HouseRecord(house_data, n, href, card_data) ==
    Update(Update(house_data, [card_index |-> n, detail_url |-> href]), CardLevel(card_data))

\* lines 812-822
FallbackRecord(n, href, card_data) ==
    Update([card_index |-> n, detail_url |-> href, source |-> "card_data_only"],
           CardLevel(card_data))

\* card_data_list[:max_cards], under if max_cards
Truncated(list, m) ==
    IF m = 0 \/ Len(list) <= m THEN list ELSE SubSeq(list, 1, m)

\* len(soup.select('article[data-test="property-card"]'))
InitialCardCount(page) == Len(Select(ElemsOf(page), 1))

\* lines 676-689
StartCards ==
    /\ pc = "start"
    /\ all_data' = <<>>
    /\ runlog' = Append(runlog, Ev("request", SearchUrl))
    /\ Call("old", SearchUrl, "search", DefaultRetriesOld)
    /\ pc' = "search_fetch"
    /\ UNCHANGED <<outcomes, site, cards, idx, details, all_properties, csv,
                   max_cards, use_clicks, html, card_data_list>>

\* lines 686-729: the search fetch has returned; the snapshot is written, the
\* page parsed, and with fewer cards than expected the page is asked for again
\* with the additional scroll flow
CardsSearchReturned ==
    /\ pc = "search_fetch"
    /\ fpc = "done"
    /\ IF ret.tag = "raised" \/ (Truthy(ret) /\ ret.html.kind = "nonstring")
       THEN \* an exception leaves process_individual_cards
            /\ pc' = "crashed"
            /\ FetchIdle
            /\ UNCHANGED <<html, runlog>>
       ELSE IF ~Truthy(ret)
       THEN /\ runlog' = Append(runlog, Ev("print", "Failed to fetch initial search page."))
            /\ pc' = "done"
            /\ FetchIdle
            /\ UNCHANGED html
       ELSE /\ html' = ret.html
            /\ IF InitialCardCount(ret.html) < ExpectedInitialCards
               THEN /\ runlog' = runlog \o <<Ev("write", "debug_search_page.html"),
                                             Ev("request", SearchUrl)>>
                    /\ Call("old", SearchUrl, "scroll", DefaultRetriesOld)
                    /\ pc' = "scroll_fetch"
               ELSE /\ runlog' = Append(runlog, Ev("write", "debug_search_page.html"))
                    /\ FetchIdle
                    /\ pc' = "extract"
    /\ UNCHANGED <<outcomes, site, cards, idx, details, all_properties, csv,
                   max_cards, use_clicks, card_data_list, all_data>>

\* lines 729-738: the additional scroll request has returned
ScrollReturned ==
    /\ pc = "scroll_fetch"
    /\ fpc = "done"
    /\ FetchIdle
    /\ IF ret.tag = "raised" \/ (Truthy(ret) /\ ret.html.kind = "nonstring")
       THEN /\ pc' = "crashed"
            /\ UNCHANGED <<html, runlog>>
       ELSE IF Truthy(ret)
       THEN /\ html' = ret.html
            /\ runlog' = Append(runlog, Ev("write", "debug_search_page.html"))
            /\ pc' = "extract"
       ELSE /\ pc' = "extract"
            /\ UNCHANGED <<html, runlog>>
    /\ UNCHANGED <<outcomes, site, cards, idx, details, all_properties, csv,
                   max_cards, use_clicks, card_data_list, all_data>>

ListedNever(json_data) == FALSE

\* line 743: if json_data
Listed(json_data) == json_data # <<>>

\* lines 740-759: the embedded JSON first; card parsing if it gave nothing
ExtractOrParse ==
    /\ pc = "extract"
    /\ LET json_data == extract_data_from_search_page_html(html) IN
       IF Listed(json_data)
       THEN /\ all_data' = [n \in DOMAIN json_data |->
                              Update(json_data[n],
                                     [card_index |-> n, source |-> "search_page_json"])]
            /\ pc' = "done"
            /\ UNCHANGED <<card_data_list, idx, runlog>>
       ELSE /\ card_data_list' = Truncated(parse_search_page(html), max_cards)
            /\ runlog' = Append(runlog, Ev("write", "debug_search_page_full.html"))
            /\ idx' = 1
            /\ pc' = "loop"
            /\ UNCHANGED all_data
    /\ UNCHANGED <<fetchVars, site, cards, details, all_properties, csv,
                   max_cards, use_clicks, html>>

\* lines 768-787: the next card, up to its nimble_request call
NextCard ==
    /\ pc = "loop"
    /\ idx <= Len(card_data_list)
    /\ LET href == Get(card_data_list[idx], "detail_url") IN
       IF href = ""
       THEN \* no valid link: continue
            /\ idx' = idx + 1
            /\ UNCHANGED <<pc, runlog, fetchVars>>
       ELSE /\ runlog' = Append(runlog, Ev("request", href))
            /\ IF use_clicks
               THEN Call("old", SearchUrl, "click", DefaultRetriesOld)
               ELSE Call("old", href, "detail", DefaultRetriesOld)
            /\ pc' = "detail_fetch"
            /\ UNCHANGED <<idx, outcomes>>
    /\ UNCHANGED <<site, cards, details, all_properties, csv, cardVars>>

\* lines 789-826: all_data after the detail fetch of card n ended with r
\* (None or html)
Records(data, r, n, card_data) ==
    LET href == Get(card_data, "detail_url") IN
    IF ~Truthy(r) THEN data
    ELSE LET house_data == parse_house_page(r.html) IN
         IF DOMAIN house_data # {}
         THEN Append(data, HouseRecord(house_data, n, href, card_data))
         ELSE Append(data, FallbackRecord(n, href, card_data))

\* lines 789-829: the detail fetch has returned
CardDetailReturned ==
    /\ pc = "detail_fetch"
    /\ fpc = "done"
    /\ FetchIdle
    /\ IF ret.tag = "raised" \/ (Truthy(ret) /\ ret.html.kind = "nonstring")
       THEN \* nimble_request raised, or f.write(detail_html) did
            /\ pc' = "crashed"
            /\ UNCHANGED <<all_data, runlog, idx>>
       ELSE /\ all_data' = Records(all_data, ret, idx, card_data_list[idx])
            /\ runlog' = Delayed(runlog \o
                   (IF Truthy(ret) THEN <<Ev("write", "debug_card.html")>>
                    ELSE <<Ev("print", "Failed to fetch detail page")>>))
            /\ idx' = idx + 1
            /\ pc' = "loop"
    /\ UNCHANGED <<outcomes, site, cards, details, all_properties, csv,
                   max_cards, use_clicks, html, card_data_list>>

\* line 831
ReturnAllData ==
    /\ pc = "loop"
    /\ idx > Len(card_data_list)
    /\ pc' = "done"
    /\ UNCHANGED <<fetchVars, site, cards, idx, details, all_properties, runlog, csv,
                   cardVars>>

\* The pages of the run: cards of one shape and bare anchors.
RunElems ==
    {Elem(sh, h, p) : sh \in {s \in Shapes : s.tag = "article" /\ s.dt = "property-card"},
                      h \in {NoHref, OakHref, ElmHref}, p \in {NoElem, "$1,200/mo"}}
      \cup {Anchor(OakHref)}

RunSearchPages ==
    {[kind |-> "search_old", payload |-> pl, elems |-> es] :
        pl \in Payloads, es \in SeqsUpTo(RunElems, MaxElems)}

InitCards ==
    /\ variant = "old"
    /\ url = SearchUrl
    /\ render_flow = "search"
    /\ retries = DefaultRetriesOld
    /\ attempt = 0
    /\ fpc = "idle"
    /\ posts = 0
    /\ events = <<>>
    /\ reported = FALSE
    /\ ret = Pending
    /\ outcomes = <<>>
    /\ site \in RunSearchPages
    /\ pc = "start"
    /\ cards = <<>>
    /\ idx = 0
    /\ details = [zpid |-> "", url |-> NoneUrl, address |-> "Unknown"]
    /\ all_properties = <<>>
    /\ runlog = <<>>
    /\ csv = [written |-> FALSE, rows |-> <<>>]
    /\ max_cards \in {0, 1}
    /\ use_clicks \in BOOLEAN
    /\ html = EmptyHtml
    /\ card_data_list = <<>>
    /\ all_data = <<>>

\* The code after the loop of the old nimble_request (lines 156-157) is not
\* among the steps: with retries = 3 the loop body always returns or continues
\* before range(retries) is exhausted.
NextCards ==
    \/ StartCards
    \/ RunPost
    \/ CardsSearchReturned
    \/ ScrollReturned
    \/ ExtractOrParse
    \/ NextCard
    \/ CardDetailReturned
    \/ ReturnAllData

SpecCards == InitCards /\ [][NextCards]_vars

(***************************************************************************)
(* Claims about nimble_request (SpecFetch).                                *)
(***************************************************************************)
Kinds(os) == {os[i].kind : i \in DOMAIN os}

\* the answers so far are k transport errors or non-2xx statuses, nothing else
OnlyTransportFailures(os) == Kinds(os) \subseteq {"transport", "timeout", "http"}

Front(os) == SubSeq(os, 1, Len(os) - 1)

\* C1: with retries = N, while the k < N answers so far are all transport
\* errors or non-2xx statuses the call is still in its loop about to make
\* POST k+1, and if POST k+1 is then answered "success" the call has returned
\* that answer's html_content after exactly k+1 POSTs (both forms).
C1_RetryThenSuccess ==
    /\ (OnlyTransportFailures(outcomes) /\ Len(outcomes) < retries)
          => (fpc = "loop" /\ attempt = Len(outcomes) /\ posts = Len(outcomes))
    /\ (/\ outcomes # <<>>
        /\ OnlyTransportFailures(Front(outcomes))
        /\ outcomes[Len(outcomes)].kind = "success")
          => (/\ fpc = "done"
              /\ ret = Html(outcomes[Len(outcomes)].html)
              /\ posts = Len(outcomes)
              /\ posts <= retries)

\* N = 3, k = 2 in the old form: two failures, then success at the third POST
C1_Witness ==
    /\ variant = "old"
    /\ retries = 3
    /\ Len(outcomes) = 3
    /\ outcomes[1].kind = "transport"
    /\ outcomes[2].kind = "http"
    /\ outcomes[3].kind = "success"
    /\ fpc = "done"
    /\ posts = 3

\* C2: a 2xx answer whose status is not "success" counts as a failed attempt:
\* while attempts remain the call stays in its loop and POSTs again.
C2_NonSuccessRetried ==
    (/\ outcomes # <<>>
     /\ outcomes[Len(outcomes)].kind = "nonsuccess"
     /\ Len(outcomes) < retries)
      => fpc = "loop"

\* C3: in the new form, whatever the backend does, the call never raises, makes
\* at least 1 and at most retries POSTs, ends with the html_content of its last
\* answer or with None, and when every attempt raised it made exactly retries
\* POSTs and returned None.
C3_NewNeverRaises ==
    variant = "new" =>
      /\ ret.tag # "raised"
      /\ posts <= retries
      /\ fpc = "loop" => (attempt = posts /\ ret = Pending)
      /\ fpc = "done" =>
            /\ posts >= 1
            /\ \/ ret = None
               \/ /\ outcomes[Len(outcomes)].kind = "success"
                  /\ ret = Html(outcomes[Len(outcomes)].html)
            /\ Kinds(outcomes) \subseteq RaisingKinds => (posts = retries /\ ret = None)

\* every one of 3 attempts raised, a KeyError and a ValueError among them
C3_Witness ==
    /\ variant = "new"
    /\ retries = 3
    /\ fpc = "done"
    /\ Len(outcomes) = 3
    /\ outcomes[1].kind = "nostatus"
    /\ outcomes[2].kind = "nonjson_legacy"
    /\ outcomes[3].kind = "timeout"
    /\ ret = None
    /\ posts = 3

\* C4: the old form never lets an exception reach its caller.
C4_OldNeverRaises == variant = "old" => ret.tag # "raised"

(***************************************************************************)
(* Claims about scrape_zillow_rentals of scrape_zillow.py (SpecRun).       *)
(***************************************************************************)
Said(msg) == Ev("print", msg) \in Range(runlog)

DetailRequests == SelectSeq(runlog, LAMBDA e : e.ev = "request" /\ e.arg # SearchUrl)

\* C5: when the search fetch has returned None or empty html, the next step
\* ends the run without raising, having reported "Failed to fetch page", with
\* no record, no detail request and no CSV; and a run that has ended takes no
\* further step.
C5_SearchFailureEndsRun ==
    [][/\ (/\ pc = "search_fetch"
           /\ fpc = "done"
           /\ ret \in {None, Html(EmptyHtml)})
          => (/\ pc' = "done"
              /\ runlog' = <<Ev("request", SearchUrl), Ev("print", "Failed to fetch page")>>
              /\ all_properties' = <<>>
              /\ csv'.written = FALSE)
       /\ pc = "done" => pc' = "done" /\ runlog' = runlog /\ csv' = csv
      ]_vars

C5_Witness ==
    /\ pc = "done"
    /\ Said("Failed to fetch page")
    /\ DetailRequests = <<>>
    /\ ~csv.written

\* every card has a property-card-link anchor with an href
AllLinked == \A i \in DOMAIN cards : cards[i].link \in Hrefs

\* the cards whose loop body has been entered
Started == IF pc = "detail_fetch" THEN idx ELSE idx - 1

\* C6: once the search page is parsed (idx >= 1), if its n cards all have a
\* detail url then, whatever the
\* detail fetches and extractions do: the detail requests made so far are those
\* of the cards handled so far, in card order; all_properties holds one record
\* per finished card, in card order, with the card's zpid and url, and a record
\* that got no detail data is the card's summary; the run is never aborted, and
\* when it has ended after the loop all n cards have a record.
C6_OneRecordPerCard ==
    (AllLinked /\ idx >= 1) =>
      /\ pc # "crashed"
      /\ Len(DetailRequests) = Started
      /\ \A i \in DOMAIN DetailRequests :
            DetailRequests[i].arg = CardUrl(cards[i].link)
      /\ Len(all_properties) = idx - 1
      /\ \A i \in DOMAIN all_properties :
            LET summary == extract_property_details(cards[i]) IN
            /\ all_properties[i].zpid = summary.zpid
            /\ all_properties[i].url = summary.url
            /\ "price" \notin DOMAIN all_properties[i] => all_properties[i] = summary
      /\ pc = "done" => Len(all_properties) = Len(cards)

\* two linked cards, one whose detail fetch failed and one whose detail
\* extraction raised: both have their record and the CSV is written
C6_Witness ==
    /\ pc = "done"
    /\ AllLinked
    /\ Len(cards) = 2
    /\ Len(all_properties) = 2
    /\ Said("Skipping detail page")
    /\ Said("Error processing")
    /\ csv.written

\* C7: no error in the processing of a card aborts the run: the run is never
\* ended by an exception once the loop over the cards has begun.
C7_NoCardAbortsRun == pc = "crashed" => idx = 0

\* C9: no two records of all_properties have the same detail url.
C9_OneRecordPerUrl ==
    \A i, j \in DOMAIN all_properties :
        i # j => all_properties[i].url # all_properties[j].url

(***************************************************************************)
(* Claims about process_individual_cards of scrape_zillow_old.py           *)
(* (SpecCards).                                                            *)
(***************************************************************************)
\* C8: when the detail fetch of a card with a detail url has failed (None or
\* empty html), the step that handles it appends one record with the card's
\* index, url and card-level fields, tagged card_data_only.
C8_FailedFetchKeepsSummary ==
    [][(/\ pc = "detail_fetch"
        /\ variant = "old"
        /\ fpc = "done"
        /\ ret \in {None, Html(EmptyHtml)})
         => /\ Len(all_data') = Len(all_data) + 1
            /\ all_data'[Len(all_data')] =
                  FallbackRecord(idx, Get(card_data_list[idx], "detail_url"),
                                 card_data_list[idx])
      ]_vars

(***************************************************************************)
(* Claims about parse_search_page of scrape_zillow_old.py (SpecParse).     *)
(***************************************************************************)
\* C10: parse_search_page returns at most one entry per detail url.
C10_OneEntryPerUrl ==
    \A m, n \in DOMAIN card_data_list :
        (/\ m # n
         /\ "detail_url" \in DOMAIN card_data_list[m]
         /\ "detail_url" \in DOMAIN card_data_list[n])
          => card_data_list[m].detail_url # card_data_list[n].detail_url

(***************************************************************************)
(* Claims about the merge and the records of scrape_zillow_rentals         *)
(* (SpecRun).                                                              *)
(***************************************************************************)
\* the record the step appends
LastRecord == all_properties'[Len(all_properties')]

\* C11: the merge never replaces a known card address by an 'Unknown' detail
\* address, and never changes the zpid and the url of the card: the record
\* appended after a detail fetch has the card's zpid and url, and the card's
\* address when that is known and the detail page gave 'Unknown'.
C11_KnownSummaryKept ==
    [][(pc = "detail_fetch" /\ pc' = "loop")
         => LET a == ApartmentDetails(ret, url) IN
            /\ LastRecord.zpid = details.zpid
            /\ LastRecord.url = details.url
            /\ (/\ a.tag = "details"
                /\ details.address # "Unknown"
                /\ a.details.address = "Unknown")
                 => LastRecord.address = details.address
      ]_vars

\* a record merged from a detail page that gave no address (nothing was
\* printed about a detail address) has kept the card's address
C11_Witness ==
    /\ ~Said("Address extracted from detail page")
    /\ ~Said("Address extracted from URL")
    /\ \E i \in DOMAIN all_properties :
          /\ "price" \in DOMAIN all_properties[i]
          /\ all_properties[i].url = ElmUrl
          /\ all_properties[i].zpid = "7"
          /\ all_properties[i].address = "12 Oak St"

\* C12: the detail page wins for every field it knows: after a detail page
\* has been read, the record appended carries, for every detail key whose
\* value is not 'Unknown' (address included, whether or not the card had an
\* address), the detail page's value.
C12_DetailWinsWhenKnown ==
    [][(/\ pc = "detail_fetch"
        /\ pc' = "loop"
        /\ ApartmentDetails(ret, url).tag = "details")
         => LET a == ApartmentDetails(ret, url).details IN
            \A k \in DOMAIN a : a[k] # "Unknown" => LastRecord[k] = a[k]
      ]_vars

\* C13: at every point of the run every record of all_properties, and every
\* row written to the CSV, has a non-empty zpid or a detail url; a card with
\* neither leaves no record.
C13_RecordsAreLinked ==
    /\ \A i \in DOMAIN all_properties :
          all_properties[i].zpid # "" \/ all_properties[i].url # NoneUrl
    /\ \A i \in DOMAIN csv.rows : csv.rows[i].zpid # "" \/ csv.rows[i].url # ""

\* the run has written its CSV from a page on which a card had neither an id
\* nor a link, and that card has no record
C13_Witness ==
    /\ pc = "done"
    /\ csv.written
    /\ \E i \in DOMAIN cards : cards[i].id = "" /\ cards[i].link = "nolink"
    /\ Len(all_properties) = Len(cards) - 1
    /\ Len(csv.rows) = Len(all_properties)

\* the cards the loop is through
Processed == {i \in DOMAIN cards : i <= idx - 1}

\* C14: a card is left out only when it has neither an identifier nor a
\* detail link: while the loop runs and after it, there is one record for
\* each card, of those the loop is through, that has a non-empty zpid or a
\* link (a card with a zpid and no link included).
C14_IdentifiedCardKept ==
    pc \in {"loop", "done"}
      => Len(all_properties) =
           Cardinality({i \in Processed :
                          StripZpid(cards[i].id) # "" \/ cards[i].link # "nolink"})

\* C15: every row written to the CSV has each of the 12 declared columns set
\* to a non-empty value (a parsed value or a sentinel), also when the detail
\* fetch of its card failed or its detail extraction raised.
C15_EveryColumnSet ==
    csv.written
      => \A i \in DOMAIN csv.rows :
            \A c \in Range(csv_columns) :
               c \in DOMAIN csv.rows[i] /\ csv.rows[i][c] # ""

\* C16: when the search page that was fetched has no listing card, the run
\* makes no detail request, collects no record, does not raise, writes no
\* CSV, and has reported "No properties found." when it ends.
C16_NoCardsNoProperties ==
    (idx >= 1 /\ cards = <<>>)
      => /\ pc \in {"loop", "done"}
         /\ DetailRequests = <<>>
         /\ all_properties = <<>>
         /\ ~csv.written
         /\ pc = "done" => Said("No properties found.")

\* a run on a page without cards has ended with the report
C16_Witness ==
    /\ site.cards = <<>>
    /\ idx >= 1
    /\ cards = <<>>
    /\ pc = "done"
    /\ Said("No properties found.")
    /\ Ev("write", "search_page_debug.html") \in Range(runlog)

(***************************************************************************)
(* SpecExtract: extract_property_details on any card, and the extraction   *)
(* of extract_apartment_details on any detail page its fetch returned.     *)
(* cards holds the card, site the detail page, details the dict returned.  *)
(***************************************************************************)
InitExtract ==
    /\ variant = "new"
    /\ render_flow = "detail"
    /\ retries = DefaultRetriesNew
    /\ attempt = 0
    /\ fpc = "idle"
    /\ posts = 0
    /\ events = <<>>
    /\ reported = FALSE
    /\ ret = Pending
    /\ outcomes = <<>>
    /\ CardsIdle
    /\ idx = 0
    /\ details = [zpid |-> "", url |-> NoneUrl, address |-> "Unknown"]
    /\ all_properties = <<>>
    /\ runlog = <<>>
    /\ csv = [written |-> FALSE, rows |-> <<>>]
    /\ \/ /\ pc = "card"
          /\ cards \in {<<card>> : card \in AllCards}
          /\ site = EmptyHtml
          /\ url = SearchUrl
       \/ /\ pc = "page"
          /\ cards = <<>>
          /\ site \in AllDetailPages
          /\ url \in {OakUrl, ElmUrl}

\* lines 62-91
ExtractProperty ==
    /\ pc = "card"
    /\ IF PropertyDetailsRaises(cards[1])
       THEN /\ pc' = "crashed"
            /\ UNCHANGED details
       ELSE /\ details' = extract_property_details(cards[1])
            /\ pc' = "card_done"
    /\ UNCHANGED <<cards, idx, all_properties, runlog, csv, fetchVars, site, cardVars>>

\* lines 103-203, nimble_request having returned the page
ExtractApartment ==
    /\ pc = "page"
    /\ LET a == ApartmentDetails(Html(site), url) IN
         /\ a.tag = "details"
         /\ details' = a.details
    /\ pc' = "page_done"
    /\ UNCHANGED <<cards, idx, all_properties, runlog, csv, fetchVars, site, cardVars>>

NextExtract == ExtractProperty \/ ExtractApartment

SpecExtract == InitExtract /\ [][NextExtract]_vars

(***************************************************************************)
(* Claims about the extraction (SpecExtract).                              *)
(***************************************************************************)
\* the text of the first selector, in declared order, whose element has a
\* non-empty text
FirstNonEmpty(elems) ==
    LET found == {k \in DOMAIN elems : elems[k] \notin {NoElem, ""}}
    IN IF found = {} THEN NoElem
       ELSE elems[CHOOSE k \in found : \A j \in found : k <= j]

\* C17: the price of a detail page, and the address of a card, is the text
\* of the first selector in declared order that gives a non-empty match: a
\* selector that matches nothing, or an element without text, is passed
\* over; when no selector gives one the price is 'Unknown'.
C17_FirstNonEmptyMatch ==
    /\ pc = "page_done"
         => details.price = IF FirstNonEmpty(site.price_elems) = NoElem THEN "Unknown"
                            ELSE FirstNonEmpty(site.price_elems)
    /\ (pc = "card_done" /\ FirstNonEmpty(cards[1].addr_elems) # NoElem)
         => details.address = FirstNonEmpty(cards[1].addr_elems)

\* the text of the first item, over the facts selectors in order, that the
\* key is assigned from
FirstFact(facts, key) ==
    LET where == {<<k, n>> \in (DOMAIN facts) \X (1 .. MaxItems) :
                     n <= Len(facts[k]) /\ Category(facts[k][n]) = key}
    IN IF where = {} THEN NoMatch
       ELSE LET first == CHOOSE w \in where :
                            \A v \in where : w[1] < v[1] \/ (w[1] = v[1] /\ w[2] <= v[2])
            IN facts[first[1]][first[2]]

\* C18: a field resolved by an earlier strategy is not changed by a later
\* one: bedrooms, bathrooms and sqft found in the bed-bath-beyond element
\* are what the dict holds, and an amenity key holds the text of the first
\* item, over the facts selectors in order, that it was assigned from.
C18_EarlierStrategyKept ==
    pc = "page_done"
      => /\ \A k \in BedBathKeys :
               FromSummary(site.bedbath)[k] # "Unknown"
                 => details[k] = FromSummary(site.bedbath)[k]
         /\ \A k \in AmenityKeys :
               FirstFact(site.facts, k) # NoMatch => details[k] = FirstFact(site.facts, k)

\* no strategy of the field finds anything in the page
Unmatched(page, u, k) ==
    CASE k = "price" -> \A n \in DOMAIN page.price_elems : page.price_elems[n] = NoElem
      [] k = "bedrooms" -> page.bedbath.bedrooms = NoMatch /\ page.bedbath.page_bedrooms = NoMatch
      [] k = "bathrooms" -> page.bedbath.bathrooms = NoMatch /\ page.bedbath.page_bathrooms = NoMatch
      [] k = "sqft" -> page.bedbath.sqft = NoMatch /\ page.bedbath.page_sqft = NoMatch
      [] k = "address" -> page.address_elem = NoElem /\ UrlAddress(u) = "Unknown"
      [] OTHER -> FirstFact(page.facts, k) = NoMatch

DetailKeys == {"price", "address"} \cup BedBathKeys \cup AmenityKeys

\* C19: the dict extract_apartment_details returns has the ten detail keys,
\* and every field for which no strategy matched holds 'Unknown' or 'None'.
C19_UnmatchedIsSentinel ==
    pc = "page_done"
      => /\ DOMAIN details = DetailKeys
         /\ \A k \in DetailKeys :
               Unmatched(site, url, k) => details[k] \in {"Unknown", "None"}

(***************************************************************************)
(* Claims about parse_house_page (SpecCards).                              *)
(***************************************************************************)
\* C20: when the detail page's preloaded-data script is present, parses and
\* holds a property object, parse_house_page returns a non-empty record with
\* the payload's fields, and the record appended for the card is built from
\* it, not from the card alone.
C20_PayloadRecord ==
    [][(/\ pc = "detail_fetch"
        /\ variant = "old"
        /\ fpc = "done"
        /\ Truthy(ret)
        /\ ret.html.kind = "detail_old"
        /\ ret.html.script = "property")
         => /\ {"zpid", "price", "bedrooms", "bathrooms", "square_feet"}
                 \subseteq DOMAIN parse_house_page(ret.html)
            /\ Len(all_data') = Len(all_data) + 1
            /\ "source" \notin DOMAIN all_data'[Len(all_data')]
      ]_vars

\* C21: when the detail page's preloaded-data script is found but does not
\* parse as JSON, parse_house_page gives what the selector strategies
\* (extract_basic_info_from_html) find in the page, so that a price present
\* in the markup is in the record appended for the card.
C21_UnparsablePayloadFallsBack ==
    [][(/\ pc = "detail_fetch"
        /\ variant = "old"
        /\ fpc = "done"
        /\ Truthy(ret)
        /\ ret.html.kind = "detail_old"
        /\ ret.html.script = "unparsable")
         => /\ parse_house_page(ret.html) = extract_basic_info_from_html(ret.html)
            /\ Len(all_data') = Len(all_data) + 1
            /\ ret.html.price_elem # NoElem
                 => Get(all_data'[Len(all_data')], "price") = ret.html.price_elem
      ]_vars

(***************************************************************************)
(* Claims about the stages of process_individual_cards (SpecCards).        *)
(***************************************************************************)
\* the search page is in hand and the extraction stage is over
Extracted ==
    \/ pc \in {"loop", "detail_fetch"}
    \/ pc = "done" /\ ~Said("Failed to fetch initial search page.")
    \/ pc = "crashed" /\ idx >= 1

\* card parsing has run (the loop index is set by it)
CardsParsed == idx >= 1

\* C22: the embedded payload of the search page is tried first; the cards are
\* parsed, and detail pages fetched, if and only if the payload gave no
\* listing (absent, unparsable or empty); when it gave listings they are the
\* result, in order, and no detail page is requested.
C22_PayloadFirst ==
    Extracted
      => LET json_data == extract_data_from_search_page_html(html) IN
         /\ CardsParsed <=> json_data = <<>>
         /\ CardsParsed => card_data_list = Truncated(parse_search_page(html), max_cards)
         /\ json_data # <<>>
              => /\ pc = "done"
                 /\ card_data_list = <<>>
                 /\ DetailRequests = <<>>
                 /\ Len(all_data) = Len(json_data)
                 /\ \A n \in DOMAIN all_data :
                       /\ all_data[n].zpid = json_data[n].zpid
                       /\ all_data[n].source = "search_page_json"

\* a page with both a payload of listings and a linked card has been
\* processed: the listings were returned and the card was not followed
C22_Witness ==
    /\ pc = "done"
    /\ html = site
    /\ parse_search_page(html) # <<>>
    /\ Len(all_data) >= 1
    /\ all_data[1].source = "search_page_json"
    /\ DetailRequests = <<>>

InitListings == InitRun \/ InitCards

NextListings ==
    \/ variant = "new" /\ NextRun
    \/ variant = "old" /\ NextCards

SpecListings == InitListings /\ [][NextListings]_vars

\* C24: in both loops, between the detail-page requests of two consecutive
\* listings there is an inter-listing sleep, whatever the earlier fetch
\* ended with.
C24_DelayBetweenListings ==
    \A i, j \in DOMAIN runlog :
       (/\ i < j
        /\ runlog[i].ev = "request" /\ runlog[i].arg # SearchUrl
        /\ runlog[j].ev = "request" /\ runlog[j].arg # SearchUrl)
         => \E k \in DOMAIN runlog : i < k /\ k < j /\ runlog[k].ev = "sleep"

\* the detail page of a second listing has been requested after the fetch
\* of the first one failed, in either loop
C24_Witness ==
    /\ Len(DetailRequests) = 2
    /\ \/ variant = "new" /\ Said("Skipping detail page")
       \/ variant = "old" /\ Said("Failed to fetch detail page")

(***************************************************************************)
(* Claims about the pacing and the reports of nimble_request (SpecFetch).  *)
(***************************************************************************)
\* C25: in one nimble_request call, of either form, a backoff sleep lies
\* between any two consecutive POSTs, every sleep directly follows a POST,
\* no sleep follows the last allowed attempt, and none follows the attempt
\* that ended the call.
C25_BackoffBetweenAttempts ==
    /\ \A i \in DOMAIN events :
          /\ (events[i] = "post" /\ i < Len(events)) => events[i + 1] = "sleep"
          /\ events[i] = "sleep" => (i > 1 /\ events[i - 1] = "post")
    /\ (events # <<>> /\ events[Len(events)] = "sleep") => (posts < retries /\ fpc = "loop")
    /\ (fpc = "done" /\ events # <<>>) => events[Len(events)] = "post"

\* a call of three attempts has given up after two backoff sleeps
C25_Witness ==
    /\ retries = 3
    /\ fpc = "done"
    /\ ret = None
    /\ events = <<"post", "sleep", "post", "sleep", "post">>
    /\ OnlyTransportFailures(outcomes)

(***************************************************************************)
(* Claims about the order and the de-duplication of parse_search_page      *)
(* (SpecParse).                                                            *)
(***************************************************************************)
\* the linked cards of the page (bare anchors are no cards), by position
LinkedCards(es) == {k \in DOMAIN es : es[k].tag # "a" /\ es[k].href # NoHref}

\* the positions at which a detail url is first seen on a card of the page
FirstSeen(es) ==
    {k \in LinkedCards(es) :
        \A j \in LinkedCards(es) :
           j < k => AbsoluteHttps(es[j].href) # AbsoluteHttps(es[k].href)}

\* the entries of the list with this detail url
EntriesOf(list, u) == {n \in DOMAIN list : Get(list[n], "detail_url") = u}

\* C26: the list parse_search_page returns is in first-seen order: when the
\* card that first shows listing A comes before the card that first shows
\* listing B in the page, and both listings are in the list, A's first entry
\* comes before B's.
C26_FirstSeenOrder ==
    pc = "parsed"
      => \A i, j \in FirstSeen(site.elems) :
            LET a == EntriesOf(card_data_list, AbsoluteHttps(site.elems[i].href))
                b == EntriesOf(card_data_list, AbsoluteHttps(site.elems[j].href))
            IN (i < j /\ a # {} /\ b # {})
                 => \E n \in a : \A m \in b : n < m

\* the entry a card gives on its own
OwnEntry(e, entry) ==
    /\ Get(entry, "detail_url") = AbsoluteHttps(e.href)
    /\ e.price # NoElem => Get(entry, "card_price") = e.price

\* C27: two cards with different detail urls each have their own entry with
\* their own card-level fields, also when they have the same tag, class and
\* data-test.
C27_DistinctCardsKept ==
    pc = "parsed"
      => \A i, j \in LinkedCards(site.elems) :
            (/\ i # j
             /\ CardId(site.elems[i]) = CardId(site.elems[j])
             /\ AbsoluteHttps(site.elems[i].href) # AbsoluteHttps(site.elems[j].href))
              => \E n, m \in DOMAIN card_data_list :
                    /\ n # m
                    /\ OwnEntry(site.elems[i], card_data_list[n])
                    /\ OwnEntry(site.elems[j], card_data_list[m])

\* C28: when all N attempts of a call of nimble_request of
\* scrape_zillow_old.py have failed with transport errors, the report
\* "Failed to fetch ... after N attempts" has been made when the call returns
\* its failure value.
C28_OldReportsAttempts ==
    (/\ variant = "old"
     /\ fpc = "done"
     /\ posts = retries
     /\ Len(outcomes) = retries
     /\ OnlyTransportFailures(outcomes))
      => ret = None /\ reported

(***************************************************************************)
(* scrape_zillow_selenium.py: scrape_zillow_rentals.  The calls made on    *)
(* the driver are entered in runlog as "driver" events, a call that raises *)
(* included; its nimble_request, extract_property_details and              *)
(* extract_apartment_details and its loop are those of scrape_zillow.py.   *)
(* pc "sel_raise" and "sel_return" stand for an exception and a return on  *)
(* their way out of the try statement.                                     *)
(***************************************************************************)
\* if len(cards) < 17: the debug snapshot is written
ExpectedCardsSelenium == 17

\* the passes of the scroll loop of lines 267-273 that a run makes
MaxScrolls == 2

DriverLog(ops) == [i \in DOMAIN ops |-> Ev("driver", ops[i])]

\* a run of calls on the driver: all return (and control is at next), or
\* one of those that can raise does, after the ones before it
Block(ops, raising, next) ==
    \/ /\ runlog' = runlog \o DriverLog(ops)
       /\ pc' = next
    \/ \E k \in raising :
          /\ runlog' = runlog \o DriverLog(SubSeq(ops, 1, k))
          /\ pc' = "sel_raise"

SelFrame == UNCHANGED <<cards, idx, details, all_properties, csv, fetchVars, site, cardVars>>

\* line 231, setup_selenium_driver (lines 28-44): webdriver.Chrome, then
\* stealth(driver, ...); the call is before the try statement
SelSetup ==
    /\ pc = "sel_start"
    /\ \/ \* webdriver.Chrome raises: there is no driver
          /\ pc' = "raised"
          /\ UNCHANGED runlog
       \/ \* stealth raises
          /\ pc' = "raised"
          /\ runlog' = runlog \o DriverLog(<<"create", "stealth">>)
       \/ /\ pc' = "sel_open"
          /\ runlog' = runlog \o DriverLog(<<"create", "stealth">>)
    /\ SelFrame

\* lines 233-242
SelOpen ==
    /\ pc = "sel_open"
    /\ \E captcha \in BOOLEAN :
          Block(<<"get", "perform", "page_source">>, {1, 2, 3},
                IF captcha THEN "sel_captcha" ELSE "sel_wait_initial")
    /\ SelFrame

\* lines 243-245
SelCaptcha ==
    /\ pc = "sel_captcha"
    /\ \/ /\ runlog' = runlog \o <<Ev("driver", "quit"), Ev("request", SearchUrl)>>
          /\ Call("new", SearchUrl, "search", DefaultRetriesNew)
          /\ pc' = "search_fetch"
          /\ UNCHANGED outcomes
       \/ /\ runlog' = Append(runlog, Ev("driver", "quit"))
          /\ pc' = "sel_raise"
          /\ UNCHANGED fetchVars
    /\ UNCHANGED <<cards, idx, details, all_properties, csv, site, cardVars>>

\* lines 303-309: the cards of the page and the debug snapshot
SelCards(page) ==
    /\ cards' = CardsOf(page)
    /\ idx' = 1
    /\ pc' = "loop"

SelSnapshot(page) ==
    IF Len(CardsOf(page)) < ExpectedCardsSelenium
    THEN <<Ev("write", "search_page_debug_selenium.html")>>
    ELSE <<>>

\* lines 246-249 and 303-309: the fallback fetch has returned
SelSearchReturned ==
    /\ pc = "search_fetch"
    /\ fpc = "done"
    /\ FetchIdle
    /\ IF ret.tag = "raised" \/ (Truthy(ret) /\ ret.html.kind = "nonstring")
       THEN /\ pc' = "sel_raise"
            /\ UNCHANGED <<cards, idx, runlog>>
       ELSE IF ~Truthy(ret)
       THEN /\ runlog' = Append(runlog, Ev("print", "Nimble API also failed to fetch page."))
            /\ pc' = "sel_return"
            /\ UNCHANGED <<cards, idx>>
       ELSE /\ SelCards(ret.html)
            /\ runlog' = runlog \o SelSnapshot(ret.html)
    /\ UNCHANGED <<details, all_properties, csv, outcomes, site, cardVars>>

\* lines 252-262 and 276-287: WebDriverWait(...).until returns, raises
\* TimeoutException (screenshot, page source, quit, return) or raises
\* something else
WaitStep(next) ==
    \/ Block(<<"wait">>, {1}, next)
    \/ Block(<<"wait", "save_screenshot", "page_source", "quit">>, {2, 3, 4}, "sel_return")

SelWaitInitial ==
    /\ pc = "sel_wait_initial"
    /\ WaitStep("sel_scroll")
    /\ SelFrame

\* lines 265-273: the scroll loop, of one or more passes
SelScroll ==
    /\ pc = "sel_scroll"
    /\ \E passes \in 1 .. MaxScrolls :
          LET ops == [i \in 1 .. 1 + 2 * passes |-> "execute_script"]
          IN Block(ops, DOMAIN ops, "sel_wait_cards")
    /\ SelFrame

SelWaitCards ==
    /\ pc = "sel_wait_cards"
    /\ WaitStep("sel_source")
    /\ SelFrame

\* lines 289-309: the JSON check (its exceptions are caught), the page
\* source, the quit, the cards
SelSource ==
    /\ pc = "sel_source"
    /\ \/ /\ runlog' = runlog \o DriverLog(<<"find_element", "page_source", "quit">>)
                         \o SelSnapshot(site)
          /\ SelCards(site)
       \/ \E k \in {2, 3} :
             /\ runlog' = runlog \o DriverLog(SubSeq(<<"find_element", "page_source", "quit">>, 1, k))
             /\ pc' = "sel_raise"
             /\ UNCHANGED <<cards, idx>>
    /\ UNCHANGED <<details, all_properties, csv, fetchVars, site, cardVars>>

\* lines 327-329: driver is a local from line 231 on, so the test holds
Finally(log) == Append(log, Ev("driver", "quit"))

\* the finally clause, on any way out of the try statement: the end of the
\* loop, a return, an exception
SelFinally ==
    /\ \/ pc \in {"sel_raise", "sel_return"}
       \/ pc = "crashed" /\ ~csv.written
       \/ pc = "loop" /\ idx > Len(cards)
    /\ runlog' = Finally(runlog)
    /\ \/ pc' = "raised"    \* driver.quit() raises
       \/ pc' = CASE pc = "sel_return" -> "done"
                  [] pc = "loop" -> "sel_after"
                  [] OTHER -> "raised"
    /\ SelFrame

\* lines 331-346
SelAfterLoop ==
    /\ pc = "sel_after"
    /\ WriteOut

InitSelenium ==
    /\ variant = "new"
    /\ url = SearchUrl
    /\ render_flow = "search"
    /\ site \in SearchPages
    /\ CardsIdle
    /\ retries = DefaultRetriesNew
    /\ attempt = 0
    /\ fpc = "idle"
    /\ posts = 0
    /\ events = <<>>
    /\ reported = FALSE
    /\ ret = Pending
    /\ outcomes = <<>>
    /\ pc = "sel_start"
    /\ cards = <<>>
    /\ idx = 0
    /\ details = [zpid |-> "", url |-> NoneUrl, address |-> "Unknown"]
    /\ all_properties = <<>>
    /\ runlog = <<>>
    /\ csv = [written |-> FALSE, rows |-> <<>>]

NextSelenium ==
    \/ SelSetup
    \/ SelOpen
    \/ SelCaptcha
    \/ RunPost
    \/ RunLoopExit
    \/ SelSearchReturned
    \/ SelWaitInitial
    \/ SelScroll
    \/ SelWaitCards
    \/ SelSource
    \/ CardStart
    \/ DetailReturned
    \/ SelFinally
    \/ SelAfterLoop

SpecSelenium == InitSelenium /\ [][NextSelenium]_vars

DriverOps == SelectSeq(runlog, LAMBDA e : e.ev = "driver")

DriverCreated == Ev("driver", "create") \in Range(runlog)

DriverQuit == Ev("driver", "quit") \in Range(runlog)

Exited == pc \in {"done", "raised"}

\* the driver operations from the first quit on are all quits
OnlyQuitAfterQuit ==
    \A i, j \in DOMAIN DriverOps :
        (i < j /\ DriverOps[i].arg = "quit") => DriverOps[j].arg = "quit"

\* C29: once webdriver.Chrome has created the driver, the function does not
\* exit (by return or by exception) before driver.quit() has been called,
\* and no driver operation other than quit follows the first quit
C29_DriverQuit ==
    /\ (DriverCreated /\ Exited) => DriverQuit
    /\ OnlyQuitAfterQuit

KeysDeclared ==
    \A i \in DOMAIN all_properties :
        DOMAIN all_properties[i] \subseteq Range(csv_columns)

CsvAfterLoop ==
    csv.written =>
        /\ idx > Len(cards)
        /\ all_properties # <<>>
        /\ Len(csv.rows) = Len(all_properties)
        /\ pc # "crashed"

\* C30: at every point of the run every record of all_properties has only
\* keys that are CSV columns, so csv.DictWriter rejects no row; the CSV is
\* written only after the last card has been processed and only when a
\* record was collected, and once written it is not written again
C30_CsvFromDeclaredKeys ==
    /\ [](KeysDeclared /\ CsvAfterLoop)
    /\ [][csv.written => csv' = csv]_vars

C30_Witness ==
    /\ csv.written
    /\ Len(csv.rows) = 2
    /\ DOMAIN all_properties[1] = Range(csv_columns)
    /\ DOMAIN all_properties[2] # Range(csv_columns)

====
